---- MODULE Spec2Model ----
(***************************************************************************)
(* Model of the merge automation of github-automation/pkg/automation:      *)
(* the webhook handlers of logic.go, which resolve an event to a pull      *)
(* request, and processPR, which decides from the branch protection, the   *)
(* reviews and the CI signals whether to issue the merge call.             *)
(* Every remote API call is one step; the code that follows a call up to   *)
(* the next call (or the return) belongs to the step of that call.         *)
(***************************************************************************)
EXTENDS Integers, Sequences, FiniteSets, TLC

\* ---------------------------------------------------------------- bounds
MaxReviews == 2
MaxStatuses == 2
MaxCheckRuns == 2
MaxRequiredCount == 2

\* ---------------------------------------------------------------- values
Users == {"alice", "bob"}
ReviewStates == {"APPROVED", "CHANGES_REQUESTED"}
Contexts == {"ci/test", "ci/lint"}
StatusStates == {"success", "failure"}
Conclusions == {"success", "failure"}
CheckStatuses == {"completed", "in_progress"}
PRStates == {"open", "closed"}

\* The sequences over S of length at most n.
SeqsUpTo(S, n) == UNION {[1..k -> S] : k \in 0..n}

\* github.PullRequest: the fields processPR reads (GetDraft, GetState).
PullRequest == [draft : BOOLEAN, state : PRStates]

\* github.PullRequestReview: GetUser().GetLogin() and GetState().
Review == [user : Users, state : ReviewStates]

\* github.RepoStatus: GetContext() and GetState().
RepoStatus == [context : Contexts, state : StatusStates]

\* github.CheckRun: GetName(), GetStatus(), GetConclusion(); a run that has
\* not completed has no conclusion yet.
CheckRun ==
    [name : Contexts, status : {"completed"}, conclusion : Conclusions]
    \cup [name : Contexts, status : {"in_progress"}, conclusion : {""}]

\* protection == nil, after a 404 of GetBranchProtection.
NoProtection ==
    [present |-> FALSE, reviews |-> FALSE, requiredCount |-> 0,
     checks |-> FALSE, hasContexts |-> FALSE, contexts |-> <<>>]

\* The lists of required contexts a policy can carry.
ContextLists ==
    {<<>>, <<"ci/test">>, <<"ci/lint">>, <<"ci/test", "ci/lint">>}

\* github.Protection: RequiredPullRequestReviews (nil or a required approving
\* review count) and RequiredStatusChecks (nil, or Contexts nil or a list).
Protection ==
    {p \in [present : {TRUE}, reviews : BOOLEAN,
            requiredCount : 0..MaxRequiredCount,
            checks : BOOLEAN, hasContexts : BOOLEAN, contexts : ContextLists] :
        /\ (~p.reviews => p.requiredCount = 0)
        /\ (~p.checks => ~p.hasContexts)
        /\ (~p.hasContexts => p.contexts = <<>>)}

NoPR == [draft |-> FALSE, state |-> "none"]
NoEvent ==
    [type |-> "none", state |-> "", conclusion |-> "", action |-> "",
     prs |-> <<>>, pr |-> NoPR]

EventTypes == {"pull_request_review", "check_run", "check_suite", "status", "pull_request"}
ReviewEventStates == {"approved", "changes_requested"}
StatusEventStates == {"success", "pending"}
PullRequestActions == {"opened", "reopened", "synchronize", "ready_for_review", "closed"}

VARIABLES
    remotePR,       \* the pull request as the API holds it now
    event,          \* the webhook delivery in flight
    pc,             \* the handler's position: the remote call it is about to make
    prSource,       \* where the PR object handed to processPR came from
    pr,             \* processPR's pr argument
    protection,     \* processPR's protection
    reviews,        \* the response of ListReviews
    approvedCount,  \* len(approvers)
    statuses,       \* combinedStatus.Statuses
    checkRuns,      \* checkRuns.CheckRuns
    currentStates,  \* context -> state
    calls,          \* the remote calls made so far, in order
    answers,        \* how each of those calls was answered
    handled,        \* the delivery the handler was called with
    decision,       \* how the evaluation ended, as its log line says
    remote,         \* two evaluations: what the API holds besides the PR
    evals,          \* two evaluations: the locals of each goroutine
    overlapped,     \* two evaluations: one took a step while the other ran
    request,        \* HandleWebhook: the HTTP request of the delivery
    httpPc,         \* HandleWebhook: its position
    response,       \* HandleWebhook: the status line it wrote
    worker,         \* the goroutine HandleWebhook started: position and locals
    lookup,         \* the goroutine's lookup of the PRs of a commit
    outcomes,       \* PR number -> how the goroutine's evaluation of it ended
    sinceRead       \* what happened on GitHub to the PR processPR is working on

vars == <<remotePR, event, pc, prSource, pr, protection, reviews,
          approvedCount, statuses, checkRuns, currentStates, calls, answers,
          handled, decision, remote, evals, overlapped,
          request, httpPc, response, worker, lookup, outcomes, sinceRead>>

evalVars == <<protection, reviews, approvedCount, statuses, checkRuns, currentStates>>

pairVars == <<remote, evals, overlapped>>

webhookVars == <<request, httpPc, response, worker, lookup, outcomes, sinceRead>>

EmptyMap == [c \in {} |-> ""]

\* The two goroutines HandleWebhook starts for two deliveries about one PR.
Evaluations == {"e1", "e2"}

\* A goroutine that has not started.
NoEval ==
    [trigger |-> "none", pc |-> "idle", pr |-> NoPR, protection |-> NoProtection,
     statuses |-> <<>>, decision |-> "none"]

\* Nothing fetched yet: what the API holds shows when it is first asked.
NoRemote ==
    [fetched |-> {}, protection |-> NoProtection, reviews |-> <<>>,
     statuses |-> <<>>, checkRuns |-> <<>>, merges |-> 0]

\* ---- one delivery from the HTTP request to the goroutine's return
MaxPRs == 2

\* The numbers of the pull requests a delivery can be about.
PRNumbers == 1..MaxPRs

\* The lists of pull requests a payload or a lookup can carry.
PRLists ==
    {l \in SeqsUpTo(PRNumbers, MaxPRs) : \A i \in 1..(Len(l) - 1) : l[i] < l[i + 1]}

\* The number of the pull request a review or pull_request event embeds.
EmbeddedNumber == CHOOSE n \in PRNumbers : \A m \in PRNumbers : n <= m

\* What github.ParseWebHook can return: the five events the switch of
\* HandleWebhook names and, for every other event, a push.
WebhookEvents ==
    {[type |-> "pull_request_review", state |-> s, conclusion |-> "",
      action |-> "submitted", prs |-> <<>>, pr |-> p] :
        s \in ReviewEventStates, p \in PullRequest}
    \cup {[type |-> "pull_request", state |-> "", conclusion |-> "",
           action |-> a, prs |-> <<>>, pr |-> p] :
             a \in PullRequestActions, p \in PullRequest}
    \cup {[type |-> "status", state |-> s, conclusion |-> "",
           action |-> "", prs |-> <<>>, pr |-> NoPR] : s \in StatusEventStates}
    \cup {[type |-> t, state |-> s, conclusion |-> "",
           action |-> "", prs |-> l, pr |-> NoPR] :
             t \in {"check_run", "check_suite"}, s \in CheckStatuses, l \in PRLists}
    \cup {[type |-> "push", state |-> "", conclusion |-> "",
           action |-> "", prs |-> <<>>, pr |-> NoPR]}

\* No request yet.
NoRequest == [valid |-> FALSE, parsed |-> FALSE, event |-> NoEvent]

\* No goroutine, or one that returned: its locals are gone.
NoWorker ==
    [pc |-> "idle", kind |-> "none", prs |-> <<>>, cur |-> 0, pr |-> NoPR,
     protection |-> NoProtection, statuses |-> <<>>]

NoLookup == [answer |-> "none", prs |-> <<>>]

Init ==
    /\ remotePR \in PullRequest
    /\ event = NoEvent
    /\ pc = "idle"
    /\ prSource = "none"
    /\ pr = NoPR
    /\ protection = NoProtection
    /\ reviews = <<>>
    /\ approvedCount = 0
    /\ statuses = <<>>
    /\ checkRuns = <<>>
    /\ currentStates = EmptyMap
    /\ calls = <<>>
    /\ answers = <<>>
    /\ handled = NoEvent
    /\ decision = "none"
    /\ remote = NoRemote
    /\ evals = [e \in Evaluations |-> NoEval]
    /\ overlapped = FALSE
    /\ request = NoRequest
    /\ httpPc = "idle"
    /\ response = "none"
    /\ worker = NoWorker
    /\ lookup = NoLookup
    /\ outcomes = [n \in PRNumbers |-> "none"]
    /\ sinceRead = "unchanged"

\* ---------------------------------------------------------------- processPR, the pure parts

\* Mutant: every APPROVED review counts, whoever wrote it.
Approvers_PerReview(rs) == {j \in 1..Len(rs) : rs[j].state = "APPROVED"}

\* logic.go 181-188: the logins that have an APPROVED review in the list.
Approvers(rs) == {rs[i].user : i \in {j \in 1..Len(rs) : rs[j].state = "APPROVED"}}

\* Mutant: the conclusion is used whether or not the run completed.
CheckRunState_ConclusionOnly(run) == run.conclusion

\* logic.go 226-230: a completed run counts with its conclusion, any other as pending.
CheckRunState(run) == IF run.status = "completed" THEN run.conclusion ELSE "pending"

\* currentStates[k] = v
Put(m, k, v) == [c \in (DOMAIN m) \cup {k} |-> IF c = k THEN v ELSE m[c]]

\* Mutant: a context that is in the map already keeps its state.
RECURSIVE FromStatuses_FirstWins(_, _)
FromStatuses_FirstWins(m, sts) ==
    IF sts = <<>> THEN m
    ELSE IF Head(sts).context \in DOMAIN m THEN FromStatuses_FirstWins(m, Tail(sts))
    ELSE FromStatuses_FirstWins(Put(m, Head(sts).context, Head(sts).state), Tail(sts))

\* logic.go 217-219: the statuses, in list order, written into the map.
RECURSIVE FromStatuses(_, _)
FromStatuses(m, sts) ==
    IF sts = <<>> THEN m
    ELSE FromStatuses(Put(m, Head(sts).context, Head(sts).state), Tail(sts))

\* logic.go 221-231: the check runs, in list order, written over the map.
RECURSIVE OverlayCheckRuns(_, _)
OverlayCheckRuns(m, runs) ==
    IF runs = <<>> THEN m
    ELSE OverlayCheckRuns(Put(m, Head(runs).name, CheckRunState(Head(runs))), Tail(runs))

\* Mutant: the two loops swapped, so that a status overwrites a check run.
MergeSignals_StatusWins(sts, runs) == FromStatuses(OverlayCheckRuns(EmptyMap, runs), sts)

\* logic.go 215-231
MergeSignals(sts, runs) == OverlayCheckRuns(FromStatuses(EmptyMap, sts), runs)

\* Mutant: only a failure blocks; any other state passes.
RECURSIVE RequiredOutcome_OnlyFailureBlocks(_, _)
RequiredOutcome_OnlyFailureBlocks(ctxs, m) ==
    IF ctxs = <<>> THEN "ok"
    ELSE IF Head(ctxs) \notin DOMAIN m THEN "missing-required-check"
    ELSE IF m[Head(ctxs)] = "failure" THEN "failing-required-check"
    ELSE RequiredOutcome_OnlyFailureBlocks(Tail(ctxs), m)

\* Mutant: a required context that is missing is passed over.
RECURSIVE RequiredOutcome_SkipMissing(_, _)
RequiredOutcome_SkipMissing(ctxs, m) ==
    IF ctxs = <<>> THEN "ok"
    ELSE IF Head(ctxs) \notin DOMAIN m THEN RequiredOutcome_SkipMissing(Tail(ctxs), m)
    ELSE IF m[Head(ctxs)] # "success" THEN "failing-required-check"
    ELSE RequiredOutcome_SkipMissing(Tail(ctxs), m)

\* logic.go 234-244: the required contexts in list order; the first one that is
\* missing or not "success" ends the evaluation.
RECURSIVE RequiredOutcome(_, _)
RequiredOutcome(ctxs, m) ==
    IF ctxs = <<>> THEN "ok"
    ELSE IF Head(ctxs) \notin DOMAIN m THEN "missing-required-check"
    ELSE IF m[Head(ctxs)] # "success" THEN "failing-required-check"
    ELSE RequiredOutcome(Tail(ctxs), m)

\* Mutant: the required count is not looked at.
NeedsReviews_AnyCount(prot) == prot.present /\ prot.reviews

\* logic.go 172-174: the approval block is entered.
NeedsReviews(prot) == prot.present /\ prot.reviews /\ prot.requiredCount > 0

\* Mutant: off by one.
InsufficientApprovals_OffByOne(count, required) == count + 1 < required

\* logic.go 190: too few approvals.
InsufficientApprovals(count, required) == count < required

\* Mutant: the CI block is never entered.
NeedsChecks_Never(prot) == FALSE

\* logic.go 198: the CI block is entered.
NeedsChecks(prot) == prot.present /\ prot.checks

\* The call that follows the approval block.
AfterApprovals(prot) == IF NeedsChecks(prot) THEN "combined_status" ELSE "merge"

\* Mutant: the CI block comes first and the approval block is never entered.
AfterProtection_ChecksFirst(prot) ==
    IF NeedsChecks(prot) THEN "combined_status"
    ELSE IF NeedsReviews(prot) THEN "list_reviews" ELSE "merge"

\* The call that follows GetBranchProtection.
AfterProtection(prot) == IF NeedsReviews(prot) THEN "list_reviews" ELSE AfterApprovals(prot)

\* ---------------------------------------------------------------- steps

Stop(why) == /\ pc' = "done"
             /\ decision' = why

\* Mutant: the draft check is missing.
processPR_NoDraftCheck(p, src) ==
    /\ pr' = p
    /\ prSource' = src
    /\ IF p.state # "open" THEN Stop("not-open")
       ELSE \E clientOk \in BOOLEAN :
                IF clientOk THEN pc' = "get_protection" /\ decision' = decision
                ELSE Stop("client-failed")

\* Mutant: the state check is missing.
processPR_NoStateCheck(p, src) ==
    /\ pr' = p
    /\ prSource' = src
    /\ IF p.draft THEN Stop("is-draft")
       ELSE \E clientOk \in BOOLEAN :
                IF clientOk THEN pc' = "get_protection" /\ decision' = decision
                ELSE Stop("client-failed")

\* logic.go 129-145: processPR up to its first remote call.
processPR(p, src) ==
    /\ pr' = p
    /\ prSource' = src
    /\ IF p.draft THEN Stop("is-draft")
       ELSE IF p.state # "open" THEN Stop("not-open")
       ELSE \E clientOk \in BOOLEAN :
                IF clientOk THEN pc' = "get_protection" /\ decision' = decision
                ELSE Stop("client-failed")

\* GitHub produces a webhook delivery; a review or pull_request event carries
\* the pull request as it is when the event is produced.
ProduceEvent ==
    /\ pc = "idle" /\ event = NoEvent
    /\ \E t \in EventTypes :
         \/ /\ t = "pull_request_review"
            /\ \E s \in ReviewEventStates :
                 event' = [type |-> t, state |-> s, conclusion |-> "",
                           action |-> "submitted",
                           prs |-> <<>>, pr |-> remotePR]
         \/ /\ t = "pull_request"
            /\ \E a \in PullRequestActions :
                 event' = [type |-> t, state |-> "", conclusion |-> "", action |-> a,
                           prs |-> <<>>, pr |-> remotePR]
         \/ /\ t = "status"
            /\ \E s \in StatusEventStates :
                 event' = [type |-> t, state |-> s, conclusion |-> "", action |-> "",
                           prs |-> <<>>, pr |-> NoPR]
         \/ /\ t \in {"check_run", "check_suite"}
            /\ \E s \in CheckStatuses, ns \in {<<>>, <<1>>} :
               \E c \in (IF s = "completed" THEN Conclusions ELSE {""}) :
                 event' = [type |-> t, state |-> s, conclusion |-> c, action |-> "",
                           prs |-> ns, pr |-> NoPR]
    /\ UNCHANGED <<pairVars, webhookVars>>
    /\ UNCHANGED <<remotePR, pc, prSource, pr, evalVars, calls, answers, handled,
                   decision>>

\* The pull request is closed, reopened or switched between draft and ready
\* while the delivery is in flight.
RemoteChange ==
    /\ pc = "idle" /\ event # NoEvent
    /\ \E p \in PullRequest \ {remotePR} : remotePR' = p
    /\ UNCHANGED <<pairVars, webhookVars>>
    /\ UNCHANGED <<event, pc, prSource, pr, evalVars, calls, answers, handled,
                   decision>>

\* The actions of a pull_request event that start an evaluation (logic.go 108).
TriggeringActions == {"opened", "reopened", "synchronize", "ready_for_review"}

\* logic.go 24-29
handlePullRequestReview ==
    /\ pc = "idle" /\ event.type = "pull_request_review"
    /\ event' = NoEvent
    /\ handled' = event
    /\ IF event.state # "approved"
       THEN Stop("ignored") /\ UNCHANGED <<pr, prSource>>
       ELSE processPR(event.pr, "payload")
    /\ UNCHANGED <<pairVars, webhookVars>>
    /\ UNCHANGED <<remotePR, evalVars, calls, answers>>

\* Mutant: ready_for_review is not among the actions.
handlePullRequest_NoReadyForReview ==
    /\ pc = "idle" /\ event.type = "pull_request"
    /\ event' = NoEvent
    /\ handled' = event
    /\ IF event.action \in {"opened", "reopened", "synchronize"}
       THEN processPR(event.pr, "payload")
       ELSE Stop("ignored") /\ UNCHANGED <<pr, prSource>>
    /\ UNCHANGED <<pairVars, webhookVars>>
    /\ UNCHANGED <<remotePR, evalVars, calls, answers>>

\* logic.go 106-111
handlePullRequest ==
    /\ pc = "idle" /\ event.type = "pull_request"
    /\ event' = NoEvent
    /\ handled' = event
    /\ IF event.action \in TriggeringActions
       THEN processPR(event.pr, "payload")
       ELSE Stop("ignored") /\ UNCHANGED <<pr, prSource>>
    /\ UNCHANGED <<pairVars, webhookVars>>
    /\ UNCHANGED <<remotePR, evalVars, calls, answers>>

\* Mutant: the state of the status is not looked at.
handleStatus_AnyState ==
    /\ pc = "idle" /\ event.type = "status"
    /\ event' = NoEvent
    /\ handled' = event
    /\ \E clientOk \in BOOLEAN :
         IF clientOk THEN pc' = "list_prs_status" /\ decision' = decision
         ELSE Stop("client-failed")
    /\ UNCHANGED <<pairVars, webhookVars>>
    /\ UNCHANGED <<remotePR, pr, prSource, evalVars, calls, answers>>

\* logic.go 83-93: handleStatus up to its lookup.
handleStatus ==
    /\ pc = "idle" /\ event.type = "status"
    /\ event' = NoEvent
    /\ handled' = event
    /\ IF event.state # "success"
       THEN Stop("ignored")
       ELSE \E clientOk \in BOOLEAN :
                IF clientOk THEN pc' = "list_prs_status" /\ decision' = decision
                ELSE Stop("client-failed")
    /\ UNCHANGED <<pairVars, webhookVars>>
    /\ UNCHANGED <<remotePR, pr, prSource, evalVars, calls, answers>>

\* logic.go 113-118: fetchAndProcessPR up to its Get.
fetchAndProcessPR ==
    \E clientOk \in BOOLEAN :
        IF clientOk THEN pc' = "get_pr" /\ decision' = decision
        ELSE Stop("client-failed")

\* Mutant: a check that did not conclude in success is dropped.
handleCheck_SuccessOnly(t) ==
    /\ pc = "idle" /\ event.type = t
    /\ event' = NoEvent
    /\ handled' = event
    /\ IF event.state # "completed" \/ event.conclusion # "success"
       THEN Stop("ignored")
       ELSE IF Len(event.prs) = 0
       THEN \E clientOk \in BOOLEAN :
                IF clientOk THEN pc' = "list_prs_check" /\ decision' = decision
                ELSE Stop("client-failed")
       ELSE fetchAndProcessPR
    /\ UNCHANGED <<pairVars, webhookVars>>
    /\ UNCHANGED <<remotePR, pr, prSource, evalVars, calls, answers>>

\* logic.go 31-50 and 57-76: handleCheckRun and handleCheckSuite have the same
\* body, up to the lookup or, when the payload lists the pull request, the Get.
handleCheck(t) ==
    /\ pc = "idle" /\ event.type = t
    /\ event' = NoEvent
    /\ handled' = event
    /\ IF event.state # "completed"
       THEN Stop("ignored")
       ELSE IF Len(event.prs) = 0
       THEN \E clientOk \in BOOLEAN :
                IF clientOk THEN pc' = "list_prs_check" /\ decision' = decision
                ELSE Stop("client-failed")
       ELSE fetchAndProcessPR
    /\ UNCHANGED <<pairVars, webhookVars>>
    /\ UNCHANGED <<remotePR, pr, prSource, evalVars, calls, answers>>

handleCheckRun == handleCheck("check_run")

handleCheckSuite == handleCheck("check_suite")

\* logic.go 95-103: the lookup of handleStatus answers; the pull requests it
\* returns go to processPR as returned.
ListPullRequestsWithCommitStatus ==
    /\ pc = "list_prs_status"
    /\ calls' = Append(calls, "ListPullRequestsWithCommit")
    /\ \E resp \in {"error", "none", "found"} :
         /\ answers' = Append(answers, resp)
         /\ CASE resp = "error" -> Stop("lookup-failed") /\ UNCHANGED <<pr, prSource>>
              [] resp = "none" -> Stop("no-pr") /\ UNCHANGED <<pr, prSource>>
              [] resp = "found" -> processPR(remotePR, "lookup")
    /\ UNCHANGED <<pairVars, webhookVars>>
    /\ UNCHANGED <<remotePR, event, evalVars, handled>>

\* Mutant: the error of the lookup is not looked at.
ListPullRequestsWithCommitCheck_IgnoreError ==
    /\ pc = "list_prs_check"
    /\ calls' = Append(calls, "ListPullRequestsWithCommit")
    /\ \E resp \in {"error", "none", "found"} :
         /\ answers' = Append(answers, resp)
         /\ CASE resp = "error" -> fetchAndProcessPR
              [] resp = "none" -> Stop("no-pr")
              [] resp = "found" -> fetchAndProcessPR
    /\ UNCHANGED <<pairVars, webhookVars>>
    /\ UNCHANGED <<remotePR, event, pr, prSource, evalVars, handled>>

\* logic.go 44-54 and 70-80: the fallback lookup of a check event answers; the
\* pull requests it returns are fetched again by number.
ListPullRequestsWithCommitCheck ==
    /\ pc = "list_prs_check"
    /\ calls' = Append(calls, "ListPullRequestsWithCommit")
    /\ \E resp \in {"error", "none", "found"} :
         /\ answers' = Append(answers, resp)
         /\ CASE resp = "error" -> Stop("lookup-failed")
              [] resp = "none" -> Stop("no-pr")
              [] resp = "found" -> fetchAndProcessPR
    /\ UNCHANGED <<pairVars, webhookVars>>
    /\ UNCHANGED <<remotePR, event, pr, prSource, evalVars, handled>>

\* logic.go 120-126
PullRequestsGet ==
    /\ pc = "get_pr"
    /\ calls' = Append(calls, "Get")
    /\ \E ok \in BOOLEAN :
         /\ answers' = Append(answers, IF ok THEN "ok" ELSE "error")
         /\ IF ok THEN processPR(remotePR, "get")
            ELSE Stop("get-failed") /\ UNCHANGED <<pr, prSource>>
    /\ UNCHANGED <<pairVars, webhookVars>>
    /\ UNCHANGED <<remotePR, event, evalVars, handled>>

\* Mutant: a 404 is an error like any other.
GetBranchProtection_NotFoundIsError ==
    /\ pc = "get_protection"
    /\ calls' = Append(calls, "GetBranchProtection")
    /\ handled' = NoEvent
    /\ \/ /\ answers' = Append(answers, "error")
          /\ Stop("policy-fetch-failed")
          /\ UNCHANGED protection
       \/ /\ answers' = Append(answers, "not-found")
          /\ Stop("policy-fetch-failed")
          /\ UNCHANGED protection
       \/ \E prot \in Protection :
          /\ answers' = Append(answers, "ok")
          /\ protection' = prot
          /\ pc' = AfterProtection(prot)
          /\ UNCHANGED decision
    /\ UNCHANGED <<pairVars, webhookVars>>
    /\ UNCHANGED <<remotePR, event, prSource, pr, reviews, approvedCount,
                   statuses, checkRuns, currentStates>>

\* Mutant: any error is taken for "no protection".
GetBranchProtection_ErrorIsNotFound ==
    /\ pc = "get_protection"
    /\ calls' = Append(calls, "GetBranchProtection")
    /\ handled' = NoEvent
    /\ \/ \E a \in {"error", "not-found"} :
          /\ answers' = Append(answers, a)
          /\ protection' = NoProtection
          /\ pc' = AfterProtection(NoProtection)
          /\ UNCHANGED decision
       \/ \E prot \in Protection :
          /\ answers' = Append(answers, "ok")
          /\ protection' = prot
          /\ pc' = AfterProtection(prot)
          /\ UNCHANGED decision
    /\ UNCHANGED <<pairVars, webhookVars>>
    /\ UNCHANGED <<remotePR, event, prSource, pr, reviews, approvedCount,
                   statuses, checkRuns, currentStates>>

\* logic.go 159-174 (and 198 when the approval block is not entered). The
\* delivery is not read again once processPR makes its first call; the model
\* forgets it here.
GetBranchProtection ==
    /\ pc = "get_protection"
    /\ calls' = Append(calls, "GetBranchProtection")
    /\ handled' = NoEvent
    /\ \/ \* any error but 404
          /\ answers' = Append(answers, "error")
          /\ Stop("policy-fetch-failed")
          /\ UNCHANGED protection
       \/ \* 404: protection = nil
          /\ answers' = Append(answers, "not-found")
          /\ protection' = NoProtection
          /\ pc' = AfterProtection(NoProtection)
          /\ UNCHANGED decision
       \/ \E prot \in Protection :
          /\ answers' = Append(answers, "ok")
          /\ protection' = prot
          /\ pc' = AfterProtection(prot)
          /\ UNCHANGED decision
    /\ UNCHANGED <<pairVars, webhookVars>>
    /\ UNCHANGED <<remotePR, event, prSource, pr, reviews, approvedCount,
                   statuses, checkRuns, currentStates>>

\* logic.go 175-198
ListReviews ==
    /\ pc = "list_reviews"
    /\ calls' = Append(calls, "ListReviews")
    /\ \/ /\ answers' = Append(answers, "error")
          /\ Stop("fetch-failed")
          /\ UNCHANGED <<reviews, approvedCount>>
       \/ \E rs \in SeqsUpTo(Review, MaxReviews) :
          /\ answers' = Append(answers, "ok")
          /\ reviews' = rs
          /\ approvedCount' = Cardinality(Approvers(rs))
          /\ IF InsufficientApprovals(approvedCount', protection.requiredCount)
             THEN Stop("insufficient-approvals")
             ELSE pc' = AfterApprovals(protection) /\ UNCHANGED decision
    /\ UNCHANGED <<pairVars, webhookVars>>
    /\ UNCHANGED <<remotePR, event, prSource, pr, protection,
                   statuses, checkRuns, currentStates, handled>>

\* Mutant: an error of the fetch is logged and the evaluation goes on without
\* statuses.
GetCombinedStatus_IgnoreError ==
    /\ pc = "combined_status"
    /\ calls' = Append(calls, "GetCombinedStatus")
    /\ \/ /\ answers' = Append(answers, "error")
          /\ statuses' = <<>>
       \/ \E sts \in SeqsUpTo(RepoStatus, MaxStatuses) :
          /\ answers' = Append(answers, "ok")
          /\ statuses' = sts
    /\ pc' = "check_runs"
    /\ reviews' = <<>>
    /\ UNCHANGED <<pairVars, webhookVars>>
    /\ UNCHANGED <<remotePR, event, prSource, pr, protection,
                   approvedCount, checkRuns, currentStates, handled, decision>>

\* logic.go 201-205. The reviews and the approver set are locals of the
\* approval block (172-195) and are gone here; approvedCount stays as the
\* record of what that block counted.
GetCombinedStatus ==
    /\ pc = "combined_status"
    /\ calls' = Append(calls, "GetCombinedStatus")
    /\ \/ /\ answers' = Append(answers, "error")
          /\ Stop("fetch-failed")
          /\ UNCHANGED statuses
       \/ \E sts \in SeqsUpTo(RepoStatus, MaxStatuses) :
          /\ answers' = Append(answers, "ok")
          /\ statuses' = sts
          /\ pc' = "check_runs"
          /\ UNCHANGED decision
    /\ reviews' = <<>>
    /\ UNCHANGED <<pairVars, webhookVars>>
    /\ UNCHANGED <<remotePR, event, prSource, pr, protection,
                   approvedCount, checkRuns, currentStates, handled>>

\* logic.go 208-249
ListCheckRunsForRef ==
    /\ pc = "check_runs"
    /\ calls' = Append(calls, "ListCheckRunsForRef")
    /\ \/ /\ answers' = Append(answers, "error")
          /\ Stop("fetch-failed")
          /\ UNCHANGED <<checkRuns, currentStates>>
       \/ \E runs \in SeqsUpTo(CheckRun, MaxCheckRuns) :
          /\ answers' = Append(answers, "ok")
          /\ checkRuns' = runs
          /\ currentStates' = MergeSignals(statuses, runs)
          /\ LET outcome == IF protection.hasContexts
                            THEN RequiredOutcome(protection.contexts, currentStates')
                            ELSE "ok"
             IN IF outcome = "ok"
                THEN pc' = "merge" /\ UNCHANGED decision
                ELSE Stop(outcome)
    /\ UNCHANGED <<pairVars, webhookVars>>
    /\ UNCHANGED <<remotePR, event, prSource, pr, protection, reviews,
                   approvedCount, statuses, handled>>

\* Mutant: a failed merge call is tried once more.
Merge_RetryOnFailure ==
    /\ pc = "merge"
    /\ calls' = Append(calls, "Merge")
    /\ \E ok \in BOOLEAN :
         /\ answers' = Append(answers, IF ok THEN "ok" ELSE "error")
         /\ IF ok THEN Stop("proceed")
            ELSE IF \E i \in 1..Len(calls) : calls[i] = "Merge"
            THEN Stop("merge-failed")
            ELSE pc' = "merge" /\ UNCHANGED decision
    /\ reviews' = <<>>
    /\ statuses' = <<>>
    /\ checkRuns' = <<>>
    /\ UNCHANGED <<pairVars, webhookVars>>
    /\ UNCHANGED <<remotePR, event, prSource, pr, protection, approvedCount,
                   currentStates, handled>>

\* logic.go 252-257: the merge call; its failure is logged. The two fetched
\* lists are locals of the CI block (198-246) and are gone here; currentStates
\* stays as the record of the map that block built.
Merge ==
    /\ pc = "merge"
    /\ calls' = Append(calls, "Merge")
    /\ \E ok \in BOOLEAN :
         /\ answers' = Append(answers, IF ok THEN "ok" ELSE "error")
         /\ Stop(IF ok THEN "proceed" ELSE "merge-failed")
    /\ reviews' = <<>>
    /\ statuses' = <<>>
    /\ checkRuns' = <<>>
    /\ UNCHANGED <<pairVars, webhookVars>>
    /\ UNCHANGED <<remotePR, event, prSource, pr, protection, approvedCount,
                   currentStates, handled>>

Next ==
    \/ ProduceEvent
    \/ RemoteChange
    \/ handlePullRequestReview
    \/ handlePullRequest
    \/ handleStatus
    \/ handleCheckRun
    \/ handleCheckSuite
    \/ ListPullRequestsWithCommitStatus
    \/ ListPullRequestsWithCommitCheck
    \/ PullRequestsGet
    \/ GetBranchProtection
    \/ ListReviews
    \/ GetCombinedStatus
    \/ ListCheckRunsForRef
    \/ Merge

Spec == Init /\ [][Next]_vars

\* ---------------------------------------------------------------- two evaluations of one pull request
\* webhook.go 106-120: HandleWebhook starts every handler with "go", so that two
\* deliveries about one pull request are evaluated by two goroutines whose
\* remote calls interleave. The goroutines share nothing but the API; what
\* the API holds (protection, reviews, statuses, check runs) is fixed when it
\* is first asked and answered the same from then on.

MaxPairLen == 1

\* What the API can hold for the pull request of the two evaluations: one
\* context name is enough for two goroutines to read the same signals.
PairContexts == {"ci/test"}

PairProtections ==
    {p \in Protection : \A i \in 1..Len(p.contexts) : p.contexts[i] \in PairContexts}
    \cup {NoProtection}

PairReviews == SeqsUpTo(Review, MaxPairLen)

PairStatuses == SeqsUpTo({s \in RepoStatus : s.context \in PairContexts}, MaxPairLen)

PairCheckRuns == SeqsUpTo({r \in CheckRun : r.name \in PairContexts}, MaxPairLen)

handlerVars == <<event, pc, prSource, pr, protection, reviews, approvedCount,
                 statuses, checkRuns, currentStates, calls, answers, handled,
                 decision>>

\* The answers a fetch of one kind can get: any of S the first time, the
\* same again afterwards.
RemoteAnswers(field, S) == IF field \in remote.fetched THEN {remote[field]} ELSE S

Fetched(field, v) == [remote EXCEPT ![field] = v, !.fetched = @ \cup {field}]

OtherEvaluation(e) == CHOOSE o \in Evaluations : o # e

InProgress(e) == evals[e].pc \notin {"idle", "done"}

\* The goroutine's return: the locals of processPR (logic.go 159, 181, 213)
\* are gone, what stays is what was logged about the pull request.
Ended(ev, why) ==
    [ev EXCEPT !.pc = "done", !.decision = why,
               !.protection = NoProtection, !.statuses = <<>>]

\* Mutant: the signal map is a field the goroutines share.
goStep_SharedSignals(e, ev) ==
    /\ evals' = [o \in Evaluations |->
                   IF o = e THEN ev
                   ELSE [evals[o] EXCEPT !.statuses = ev.statuses]]
    /\ overlapped' = (overlapped \/ InProgress(OtherEvaluation(e)))

\* One step of goroutine e, which leaves it with the locals ev.
goStep(e, ev) ==
    /\ evals' = [evals EXCEPT ![e] = ev]
    /\ overlapped' = (overlapped \/ InProgress(OtherEvaluation(e)))

\* Mutant: a pull request that was evaluated before is not evaluated again.
goProcessPR_SkipEvaluated(ev, p) ==
    IF \E o \in Evaluations : evals[o].pc = "done" /\ evals[o].pr = p
    THEN {Ended([ev EXCEPT !.pr = p], "ignored")}
    ELSE IF p.draft THEN {Ended([ev EXCEPT !.pr = p], "is-draft")}
    ELSE IF p.state # "open" THEN {Ended([ev EXCEPT !.pr = p], "not-open")}
    ELSE {[ev EXCEPT !.pr = p, !.pc = "get_protection"],
          Ended([ev EXCEPT !.pr = p], "client-failed")}

\* logic.go 129-145: processPR up to its first remote call, as the locals it
\* can leave.
goProcessPR(ev, p) ==
    IF p.draft THEN {Ended([ev EXCEPT !.pr = p], "is-draft")}
    ELSE IF p.state # "open" THEN {Ended([ev EXCEPT !.pr = p], "not-open")}
    ELSE {[ev EXCEPT !.pr = p, !.pc = "get_protection"],
          Ended([ev EXCEPT !.pr = p], "client-failed")}

\* webhook.go 108 and logic.go 24-29: the delivery of an approved review; its
\* payload is the pull request as it was when the event was produced.
goHandlePullRequestReview(e) ==
    /\ evals[e].pc = "idle"
    /\ \E p \in PullRequest :
         \E ev \in goProcessPR([evals[e] EXCEPT !.trigger = "pull_request_review"], p) :
            goStep(e, ev)
    /\ UNCHANGED webhookVars
    /\ UNCHANGED <<remotePR, handlerVars, remote>>

\* webhook.go 110 and logic.go 31-42, 113-118: the delivery of a completed
\* check run whose payload lists the pull request.
goHandleCheckRun(e) ==
    /\ evals[e].pc = "idle"
    /\ \E clientOk \in BOOLEAN :
         goStep(e, IF clientOk
                   THEN [evals[e] EXCEPT !.trigger = "check_run", !.pc = "get_pr"]
                   ELSE Ended([evals[e] EXCEPT !.trigger = "check_run"], "client-failed"))
    /\ UNCHANGED webhookVars
    /\ UNCHANGED <<remotePR, handlerVars, remote>>

\* logic.go 120-126
goPullRequestsGet(e) ==
    /\ evals[e].pc = "get_pr"
    /\ \/ goStep(e, Ended(evals[e], "get-failed"))
       \/ \E ev \in goProcessPR(evals[e], remotePR) : goStep(e, ev)
    /\ UNCHANGED webhookVars
    /\ UNCHANGED <<remotePR, handlerVars, remote>>

\* logic.go 159-174
goGetBranchProtection(e) ==
    /\ evals[e].pc = "get_protection"
    /\ \/ /\ goStep(e, Ended(evals[e], "policy-fetch-failed"))
          /\ UNCHANGED remote
       \/ \E prot \in RemoteAnswers("protection", PairProtections) :
          /\ remote' = Fetched("protection", prot)
          /\ goStep(e, [evals[e] EXCEPT !.protection = prot,
                                        !.pc = AfterProtection(prot)])
    /\ UNCHANGED webhookVars
    /\ UNCHANGED <<remotePR, handlerVars>>

\* logic.go 175-198
goListReviews(e) ==
    /\ evals[e].pc = "list_reviews"
    /\ \/ /\ goStep(e, Ended(evals[e], "fetch-failed"))
          /\ UNCHANGED remote
       \/ \E rs \in RemoteAnswers("reviews", PairReviews) :
          /\ remote' = Fetched("reviews", rs)
          /\ goStep(e, IF InsufficientApprovals(Cardinality(Approvers(rs)),
                                                evals[e].protection.requiredCount)
                       THEN Ended(evals[e], "insufficient-approvals")
                       ELSE [evals[e] EXCEPT !.pc = AfterApprovals(evals[e].protection)])
    /\ UNCHANGED webhookVars
    /\ UNCHANGED <<remotePR, handlerVars>>

\* logic.go 201-205
goGetCombinedStatus(e) ==
    /\ evals[e].pc = "combined_status"
    /\ \/ /\ goStep(e, Ended(evals[e], "fetch-failed"))
          /\ UNCHANGED remote
       \/ \E sts \in RemoteAnswers("statuses", PairStatuses) :
          /\ remote' = Fetched("statuses", sts)
          /\ goStep(e, [evals[e] EXCEPT !.statuses = sts, !.pc = "check_runs"])
    /\ UNCHANGED webhookVars
    /\ UNCHANGED <<remotePR, handlerVars>>

\* logic.go 208-249
goListCheckRunsForRef(e) ==
    /\ evals[e].pc = "check_runs"
    /\ \/ /\ goStep(e, Ended([evals[e] EXCEPT !.statuses = <<>>], "fetch-failed"))
          /\ UNCHANGED remote
       \/ \E runs \in RemoteAnswers("checkRuns", PairCheckRuns) :
          /\ remote' = Fetched("checkRuns", runs)
          /\ LET ev == [evals[e] EXCEPT !.statuses = <<>>]
                 outcome == IF ev.protection.hasContexts
                            THEN RequiredOutcome(ev.protection.contexts,
                                                 MergeSignals(evals[e].statuses, runs))
                            ELSE "ok"
             IN goStep(e, IF outcome = "ok" THEN [ev EXCEPT !.pc = "merge"]
                          ELSE Ended(ev, outcome))
    /\ UNCHANGED webhookVars
    /\ UNCHANGED <<remotePR, handlerVars>>

\* Mutant: a goroutine that finds the pull request merged by another one
\* returns without a merge call of its own.
goMerge_OncePerPR(e) ==
    /\ evals[e].pc = "merge"
    /\ IF remote.merges > 0
       THEN /\ goStep(e, Ended(evals[e], "proceed"))
            /\ UNCHANGED <<remotePR, remote>>
       ELSE \E ok \in (IF remotePR.state = "open" THEN BOOLEAN ELSE {FALSE}) :
              /\ goStep(e, Ended(evals[e], IF ok THEN "proceed" ELSE "merge-failed"))
              /\ remotePR' = IF ok THEN [remotePR EXCEPT !.state = "closed"]
                             ELSE remotePR
              /\ remote' = [remote EXCEPT !.merges = @ + 1]
    /\ UNCHANGED webhookVars
    /\ UNCHANGED handlerVars

\* logic.go 252-257: the merge call, which the API counts. The API merges
\* only a pull request it holds as open, and the pull request is not open
\* afterwards.
goMerge(e) ==
    /\ evals[e].pc = "merge"
    /\ \E ok \in (IF remotePR.state = "open" THEN BOOLEAN ELSE {FALSE}) :
         /\ goStep(e, Ended(evals[e], IF ok THEN "proceed" ELSE "merge-failed"))
         /\ remotePR' = IF ok THEN [remotePR EXCEPT !.state = "closed"] ELSE remotePR
    /\ remote' = [remote EXCEPT !.merges = @ + 1]
    /\ UNCHANGED webhookVars
    /\ UNCHANGED handlerVars

NextPair ==
    \E e \in Evaluations :
        \/ goHandlePullRequestReview(e)
        \/ goHandleCheckRun(e)
        \/ goPullRequestsGet(e)
        \/ goGetBranchProtection(e)
        \/ goListReviews(e)
        \/ goGetCombinedStatus(e)
        \/ goListCheckRunsForRef(e)
        \/ goMerge(e)

SpecPair == Init /\ [][NextPair]_vars

\* ---------------------------------------------------------------- one delivery, from the request to the goroutine's return
\* webhook.go 91-124: HandleWebhook validates and parses the request, starts
\* the handler of the event with "go" and writes 200 OK. The goroutine walks
\* the pull requests the event resolves to one after the other (logic.go
\* 52-54, 78-80, 101-103). It runs with context.Background() and a client
\* without a timeout, so a remote call that is never answered never returns.

\* The goroutine's return.
Returned == [NoWorker EXCEPT !.pc = "done"]

\* The positions at which the goroutine waits for the answer of a remote call.
CallPcs ==
    {"list_prs", "get_pr", "get_protection", "list_reviews", "combined_status",
     "check_runs", "merge"}

Outcome(out, n, why) == [out EXCEPT ![n] = why]

\* logic.go 52-54, 78-80, 101-103 with 113-118 and 129-145: the range loop
\* from the pull request at the head of prs up to the next remote call, as
\* the pairs of the goroutine's locals and the outcomes so far it can leave.
\* A pull request handed over by number goes through fetchAndProcessPR, one
\* handed over as an object straight to processPR.
RECURSIVE RangeLoop(_, _, _)
RECURSIVE EnterProcessPR(_, _, _, _, _)
RangeLoop(kind, prs, out) ==
    IF prs = <<>> THEN {[w |-> Returned, o |-> out]}
    ELSE IF kind = "get"
    THEN {[w |-> [NoWorker EXCEPT !.pc = "get_pr", !.kind = kind,
                                   !.prs = Tail(prs), !.cur = Head(prs)],
           o |-> out]}
         \cup RangeLoop(kind, Tail(prs), Outcome(out, Head(prs), "client-failed"))
    ELSE UNION {EnterProcessPR(kind, Tail(prs), Head(prs), p, out) : p \in PullRequest}

\* logic.go 129-145: processPR for pull request n, handed the object p.
EnterProcessPR(kind, rest, n, p, out) ==
    IF p.draft THEN RangeLoop(kind, rest, Outcome(out, n, "is-draft"))
    ELSE IF p.state # "open" THEN RangeLoop(kind, rest, Outcome(out, n, "not-open"))
    ELSE {[w |-> [NoWorker EXCEPT !.pc = "get_protection", !.kind = kind,
                                   !.prs = rest, !.cur = n, !.pr = p],
           o |-> out]}
         \cup RangeLoop(kind, rest, Outcome(out, n, "client-failed"))

\* processPR returns for the current pull request and the loop goes on.
ReturnFromProcessPR(why) ==
    RangeLoop(worker.kind, worker.prs, Outcome(outcomes, worker.cur, why))

\* The goroutine moves on to one of the pairs in rs.
Continue(rs) == \E r \in rs : worker' = r.w /\ outcomes' = r.o

\* processPR goes on to its next call.
Goto(w) == {[w |-> w, o |-> outcomes]}

\* What can happen to the pull request on GitHub while processPR holds the
\* object it was handed.
RemoteChanges == {"closed", "draft", "pushed"}

\* logic.go 129-257: processPR works on the pr object it was handed (the head
\* SHA of 201 and 208, the number of 252) from its first call to its last;
\* with the return from processPR the object, and what happened to the pull
\* request since it was read, is of no further use.
SinceReadStep ==
    sinceRead' = IF worker'.cur = worker.cur /\ worker'.pc # "done"
                 THEN sinceRead ELSE "unchanged"

\* A GitHub user closes the pull request, converts it to a draft or pushes
\* a commit to it while processPR is between its calls.
RemoteChangeDuringEvaluation ==
    /\ worker.pc \in {"get_protection", "list_reviews", "combined_status",
                      "check_runs", "merge"}
    /\ sinceRead = "unchanged"
    /\ \E c \in RemoteChanges : sinceRead' = c
    /\ UNCHANGED <<remotePR, handlerVars, pairVars, request, httpPc, response,
                   worker, lookup, outcomes>>

\* GitHub delivers an event.
Deliver ==
    /\ httpPc = "idle"
    /\ \E ev \in WebhookEvents, v \in BOOLEAN, ok \in BOOLEAN :
         request' = [valid |-> v, parsed |-> ok, event |-> ev]
    /\ httpPc' = "received"
    /\ UNCHANGED <<remotePR, handlerVars, pairVars, sinceRead, response, worker, lookup, outcomes>>

\* Mutant: an event the switch does not name is answered as a bad request.
HandleWebhook_DefaultIsError ==
    /\ httpPc = "received"
    /\ IF ~request.valid \/ ~request.parsed \/ request.event.type \notin EventTypes
       THEN /\ response' = "400 Bad Request"
            /\ httpPc' = "responded"
            /\ UNCHANGED worker
       ELSE /\ worker' = [NoWorker EXCEPT !.pc = "spawned"]
            /\ httpPc' = "dispatched"
            /\ UNCHANGED response
    /\ UNCHANGED <<remotePR, handlerVars, pairVars, sinceRead, request, lookup, outcomes>>

\* Mutant: the result of ValidatePayload is not looked at.
HandleWebhook_NoValidation ==
    /\ httpPc = "received"
    /\ IF ~request.parsed
       THEN /\ response' = "400 Bad Request"
            /\ httpPc' = "responded"
            /\ UNCHANGED worker
       ELSE /\ worker' = IF request.event.type \in EventTypes
                         THEN [NoWorker EXCEPT !.pc = "spawned"]
                         ELSE NoWorker
            /\ httpPc' = "dispatched"
            /\ UNCHANGED response
    /\ UNCHANGED <<remotePR, handlerVars, pairVars, sinceRead, request, lookup, outcomes>>

\* webhook.go 92-120: ValidatePayload, ParseWebHook and the switch with its
\* go statements.
HandleWebhook ==
    /\ httpPc = "received"
    /\ IF ~request.valid \/ ~request.parsed
       THEN /\ response' = "400 Bad Request"
            /\ httpPc' = "responded"
            /\ UNCHANGED worker
       ELSE /\ worker' = IF request.event.type \in EventTypes
                         THEN [NoWorker EXCEPT !.pc = "spawned"]
                         ELSE NoWorker
            /\ httpPc' = "dispatched"
            /\ UNCHANGED response
    /\ UNCHANGED <<remotePR, handlerVars, pairVars, sinceRead, request, lookup, outcomes>>

\* Mutant: the handler is called, not started with go (webhook.go 33-47), so
\* that the status line is written after it returned.
WriteHeaderOK_AfterHandler ==
    /\ httpPc = "dispatched"
    /\ worker.pc \in {"idle", "done"}
    /\ response' = "200 OK"
    /\ httpPc' = "responded"
    /\ UNCHANGED <<remotePR, handlerVars, pairVars, sinceRead, request, worker, lookup, outcomes>>

\* webhook.go 122-123
WriteHeaderOK ==
    /\ httpPc = "dispatched"
    /\ response' = "200 OK"
    /\ httpPc' = "responded"
    /\ UNCHANGED <<remotePR, handlerVars, pairVars, sinceRead, request, worker, lookup, outcomes>>

\* logic.go 24-29, in its goroutine.
bgHandlePullRequestReview ==
    /\ worker.pc = "spawned" /\ request.event.type = "pull_request_review"
    /\ IF request.event.state # "approved"
       THEN worker' = Returned /\ UNCHANGED outcomes
       ELSE Continue(EnterProcessPR("payload", <<>>, EmbeddedNumber,
                                    request.event.pr, outcomes))
    /\ UNCHANGED <<remotePR, handlerVars, pairVars, request, httpPc, response, lookup>>
    /\ SinceReadStep

\* logic.go 106-111, in its goroutine.
bgHandlePullRequest ==
    /\ worker.pc = "spawned" /\ request.event.type = "pull_request"
    /\ IF request.event.action \in TriggeringActions
       THEN Continue(EnterProcessPR("payload", <<>>, EmbeddedNumber,
                                    request.event.pr, outcomes))
       ELSE worker' = Returned /\ UNCHANGED outcomes
    /\ UNCHANGED <<remotePR, handlerVars, pairVars, request, httpPc, response, lookup>>
    /\ SinceReadStep

\* logic.go 83-93, in its goroutine: up to the lookup.
bgHandleStatus ==
    /\ worker.pc = "spawned" /\ request.event.type = "status"
    /\ IF request.event.state # "success"
       THEN worker' = Returned
       ELSE \E clientOk \in BOOLEAN :
                worker' = IF clientOk
                          THEN [NoWorker EXCEPT !.pc = "list_prs", !.kind = "lookup"]
                          ELSE Returned
    /\ UNCHANGED <<remotePR, handlerVars, pairVars, request, httpPc, response,
                   lookup, outcomes>>
    /\ SinceReadStep

\* Mutant: the pull requests the payload lists are not used.
bgHandleCheck_AlwaysLookup(t) ==
    /\ worker.pc = "spawned" /\ request.event.type = t
    /\ IF request.event.state # "completed"
       THEN worker' = Returned /\ UNCHANGED outcomes
       ELSE /\ \E clientOk \in BOOLEAN :
                 worker' = IF clientOk
                           THEN [NoWorker EXCEPT !.pc = "list_prs", !.kind = "get"]
                           ELSE Returned
            /\ UNCHANGED outcomes
    /\ UNCHANGED <<remotePR, handlerVars, pairVars, request, httpPc, response, lookup>>
    /\ SinceReadStep

\* logic.go 31-54 and 57-80, in their goroutine: up to the lookup or, when the
\* payload lists pull requests, the first Get.
bgHandleCheck(t) ==
    /\ worker.pc = "spawned" /\ request.event.type = t
    /\ IF request.event.state # "completed"
       THEN worker' = Returned /\ UNCHANGED outcomes
       ELSE IF Len(request.event.prs) = 0
       THEN /\ \E clientOk \in BOOLEAN :
                 worker' = IF clientOk
                           THEN [NoWorker EXCEPT !.pc = "list_prs", !.kind = "get"]
                           ELSE Returned
            /\ UNCHANGED outcomes
       ELSE Continue(RangeLoop("get", request.event.prs, outcomes))
    /\ UNCHANGED <<remotePR, handlerVars, pairVars, request, httpPc, response, lookup>>
    /\ SinceReadStep

bgHandleCheckRun == bgHandleCheck("check_run")

bgHandleCheckSuite == bgHandleCheck("check_suite")

\* logic.go 44-54, 70-80, 95-103: the lookup answers and the loop starts.
bgListPullRequestsWithCommit ==
    /\ worker.pc = "list_prs"
    /\ \/ /\ lookup' = [answer |-> "error", prs |-> <<>>]
          /\ worker' = Returned
          /\ UNCHANGED outcomes
       \/ \E found \in PRLists :
          /\ lookup' = [answer |-> "ok", prs |-> found]
          /\ Continue(RangeLoop(worker.kind, found, outcomes))
    /\ UNCHANGED <<remotePR, handlerVars, pairVars, request, httpPc, response>>
    /\ SinceReadStep

\* Mutant: a failed Get ends the loop over the pull requests.
bgPullRequestsGet_FailureEndsLoop ==
    /\ worker.pc = "get_pr"
    /\ \/ /\ worker' = Returned
          /\ outcomes' = Outcome(outcomes, worker.cur, "get-failed")
       \/ \E p \in PullRequest :
            Continue(EnterProcessPR(worker.kind, worker.prs, worker.cur, p, outcomes))
    /\ UNCHANGED <<remotePR, handlerVars, pairVars, request, httpPc, response, lookup>>
    /\ SinceReadStep

\* logic.go 120-126
bgPullRequestsGet ==
    /\ worker.pc = "get_pr"
    /\ \/ Continue(ReturnFromProcessPR("get-failed"))
       \/ \E p \in PullRequest :
            Continue(EnterProcessPR(worker.kind, worker.prs, worker.cur, p, outcomes))
    /\ UNCHANGED <<remotePR, handlerVars, pairVars, request, httpPc, response, lookup>>
    /\ SinceReadStep

\* logic.go 159-174
bgGetBranchProtection ==
    /\ worker.pc = "get_protection"
    /\ \/ Continue(ReturnFromProcessPR("policy-fetch-failed"))
       \/ \E prot \in PairProtections :
            Continue(Goto([worker EXCEPT !.protection = prot,
                                         !.pc = AfterProtection(prot)]))
    /\ UNCHANGED <<remotePR, handlerVars, pairVars, request, httpPc, response, lookup>>
    /\ SinceReadStep

\* logic.go 175-198
bgListReviews ==
    /\ worker.pc = "list_reviews"
    /\ \/ Continue(ReturnFromProcessPR("fetch-failed"))
       \/ \E rs \in PairReviews :
            IF InsufficientApprovals(Cardinality(Approvers(rs)),
                                     worker.protection.requiredCount)
            THEN Continue(ReturnFromProcessPR("insufficient-approvals"))
            ELSE Continue(Goto([worker EXCEPT !.pc = AfterApprovals(worker.protection)]))
    /\ UNCHANGED <<remotePR, handlerVars, pairVars, request, httpPc, response, lookup>>
    /\ SinceReadStep

\* logic.go 201-205
bgGetCombinedStatus ==
    /\ worker.pc = "combined_status"
    /\ \/ Continue(ReturnFromProcessPR("fetch-failed"))
       \/ \E sts \in PairStatuses :
            Continue(Goto([worker EXCEPT !.statuses = sts, !.pc = "check_runs"]))
    /\ UNCHANGED <<remotePR, handlerVars, pairVars, request, httpPc, response, lookup>>
    /\ SinceReadStep

\* logic.go 208-249
bgListCheckRunsForRef ==
    /\ worker.pc = "check_runs"
    /\ \/ Continue(ReturnFromProcessPR("fetch-failed"))
       \/ \E runs \in PairCheckRuns :
            LET outcome == IF worker.protection.hasContexts
                           THEN RequiredOutcome(worker.protection.contexts,
                                                MergeSignals(worker.statuses, runs))
                           ELSE "ok"
            IN IF outcome = "ok"
               THEN Continue(Goto([worker EXCEPT !.statuses = <<>>, !.pc = "merge"]))
               ELSE Continue(ReturnFromProcessPR(outcome))
    /\ UNCHANGED <<remotePR, handlerVars, pairVars, request, httpPc, response, lookup>>
    /\ SinceReadStep

\* logic.go 252-257: the merge call, with nil options. The API refuses a
\* pull request that is closed or a draft; it merges whatever the head is.
bgMerge ==
    /\ worker.pc = "merge"
    /\ \E ok \in (IF sinceRead \in {"closed", "draft"} THEN {FALSE} ELSE BOOLEAN) :
         Continue(ReturnFromProcessPR(IF ok THEN "proceed" ELSE "merge-failed"))
    /\ UNCHANGED <<remotePR, handlerVars, pairVars, request, httpPc, response, lookup>>
    /\ SinceReadStep

\* A remote call is never answered: the call has no deadline (webhook.go
\* 108-117 pass context.Background(), 132-133 build a client without a
\* timeout), so the goroutine stays in it.
bgNoResponse ==
    /\ worker.pc \in CallPcs
    /\ worker' = [worker EXCEPT !.pc = "blocked"]
    /\ UNCHANGED <<remotePR, handlerVars, pairVars, request, httpPc, response,
                   lookup, outcomes>>
    /\ SinceReadStep

\* The steps of the goroutine.
Background ==
    \/ bgHandlePullRequestReview
    \/ bgHandlePullRequest
    \/ bgHandleStatus
    \/ bgHandleCheckRun
    \/ bgHandleCheckSuite
    \/ bgListPullRequestsWithCommit
    \/ bgPullRequestsGet
    \/ bgGetBranchProtection
    \/ bgListReviews
    \/ bgGetCombinedStatus
    \/ bgListCheckRunsForRef
    \/ bgMerge
    \/ bgNoResponse

NextWebhook ==
    \/ Deliver
    \/ HandleWebhook
    \/ WriteHeaderOK
    \/ bgHandlePullRequestReview
    \/ bgHandlePullRequest
    \/ bgHandleStatus
    \/ bgHandleCheckRun
    \/ bgHandleCheckSuite
    \/ bgListPullRequestsWithCommit
    \/ bgPullRequestsGet
    \/ bgGetBranchProtection
    \/ bgListReviews
    \/ bgGetCombinedStatus
    \/ bgListCheckRunsForRef
    \/ bgMerge
    \/ bgNoResponse
    \/ RemoteChangeDuringEvaluation

InitWebhook == Init /\ remotePR = [draft |-> FALSE, state |-> "open"]

SpecWebhook == InitWebhook /\ [][NextWebhook]_vars

\* The scheduler runs the HTTP handler and the goroutine as long as they can
\* take a step.
SpecWebhookFair ==
    /\ SpecWebhook
    /\ WF_vars(HandleWebhook)
    /\ WF_vars(WriteHeaderOK)
    /\ WF_vars(Background)

\* ---------------------------------------------------------------- properties

Made(c) == \E i \in 1..Len(calls) : calls[i] = c

MergeIssued == Made("Merge")

LastCall == IF calls = <<>> THEN "" ELSE calls[Len(calls)]

\* processPR was entered.
Evaluated == pr # NoPR

\* The remote calls processPR makes.
ProcessPRCalls ==
    {"GetBranchProtection", "ListReviews", "GetCombinedStatus",
     "ListCheckRunsForRef", "Merge"}

NoProcessPRCall == \A i \in 1..Len(calls) : calls[i] \notin ProcessPRCalls

\* A fetch, or the creation of the client the fetches go through, failed.
FetchFailures == {"client-failed", "policy-fetch-failed", "fetch-failed"}

\* The state right after ListReviews answered with a list.
ReviewsFetched == LastCall = "ListReviews" /\ decision # "fetch-failed"

\* The state right after ListCheckRunsForRef answered with a list.
SignalsFetched == LastCall = "ListCheckRunsForRef" /\ decision # "fetch-failed"

\* The users with at least one APPROVED review in the list.
DistinctApprovingUsers(rs) ==
    {u \in Users : \E i \in 1..Len(rs) : rs[i] = [user |-> u, state |-> "APPROVED"]}

\* The required contexts of the policy, as a set.
RequiredContexts == {protection.contexts[i] : i \in 1..Len(protection.contexts)}

ApprovalsSatisfied ==
    \/ ~protection.reviews
    \/ protection.requiredCount = 0
    \/ approvedCount >= protection.requiredCount

ChecksSatisfied ==
    \A c \in RequiredContexts : c \in DOMAIN currentStates /\ currentStates[c] = "success"

PolicySatisfied ==
    /\ ~pr.draft
    /\ pr.state = "open"
    /\ \/ ~protection.present
       \/ ApprovalsSatisfied /\ ChecksSatisfied

\* C1: an evaluation in which no fetch failed issues the merge call if and
\* only if the PR is open, not a draft, and there is no policy or the policy's
\* approval count and required contexts are both met; the approval count is
\* the number of distinct users with an APPROVED review.
C1_MergeIffPolicySatisfied ==
    /\ (Evaluated /\ pc = "done" /\ decision \notin FetchFailures)
          => (MergeIssued <=> PolicySatisfied)
    /\ MergeIssued => PolicySatisfied
    /\ ReviewsFetched => approvedCount = Cardinality(DistinctApprovingUsers(reviews))

C1_Witness ==
    /\ pc = "done" /\ decision = "proceed" /\ MergeIssued
    /\ protection.requiredCount = 2 /\ approvedCount = 2
    /\ protection.contexts = <<"ci/test", "ci/lint">>

\* C2: a draft PR ends processPR in Skip(is-draft), open or closed, before a
\* client is created and without any remote call of processPR.
C2_DraftSkips ==
    (Evaluated /\ pr.draft) =>
        /\ pc = "done"
        /\ decision = "is-draft"
        /\ NoProcessPRCall

C2_Witness == Evaluated /\ pr.draft /\ pr.state = "closed" /\ decision = "is-draft"

\* C3 as stated: every PR that is not open ends in Skip(not-open) with no
\* policy, review or signal fetch and no merge call.
C3_NotOpenSkips_Original ==
    (Evaluated /\ pr.state # "open") =>
        /\ pc = "done"
        /\ decision = "not-open"
        /\ NoProcessPRCall

\* C3 amended: a PR that is not open is never fetched for nor merged; it ends
\* in Skip(not-open) unless it is a draft, which ends in Skip(is-draft) first.
C3_NotOpenSkips ==
    (Evaluated /\ pr.state # "open") =>
        /\ pc = "done"
        /\ decision = (IF pr.draft THEN "is-draft" ELSE "not-open")
        /\ NoProcessPRCall

C3_Witness == Evaluated /\ ~pr.draft /\ pr.state = "closed" /\ decision = "not-open"

\* C4 as stated: the PR an evaluation decides on is the one the API holds when
\* the evaluation starts, whatever the event, so a PR that was closed or made
\* a draft after the event was produced is never merged.
C4_NeverMergesStalePR ==
    MergeIssued => (remotePR.state = "open" /\ ~remotePR.draft)

\* C5: approvals are counted per user: the count is the number of distinct
\* users with an APPROVED review, and two APPROVED reviews of one user against
\* a required count of 2 end in Skip(insufficient-approvals).
C5_ApprovalsCountedPerUser ==
    ReviewsFetched =>
        /\ approvedCount = Cardinality(DistinctApprovingUsers(reviews))
        /\ (protection.requiredCount = 2
            /\ Cardinality(DistinctApprovingUsers(reviews)) = 1)
              => (pc = "done" /\ decision = "insufficient-approvals")

C5_Witness ==
    /\ ReviewsFetched
    /\ protection.requiredCount = 2
    /\ Len(reviews) = 2
    /\ reviews[1] = [user |-> "alice", state |-> "APPROVED"]
    /\ reviews[2] = reviews[1]
    /\ decision = "insufficient-approvals"

\* The users whose last review in the list is APPROVED.
LatestApprovers(rs) ==
    {u \in Users :
        \E i \in 1..Len(rs) :
            /\ rs[i] = [user |-> u, state |-> "APPROVED"]
            /\ \A j \in (i + 1)..Len(rs) : rs[j].user # u}

\* C6 as stated: only a user's most recent review counts, so a user whose
\* APPROVED review is followed by a CHANGES_REQUESTED review of theirs is no
\* approver, and with nobody else approving the evaluation skips.
C6_LatestReviewCounts ==
    ReviewsFetched =>
        /\ approvedCount = Cardinality(LatestApprovers(reviews))
        /\ (protection.requiredCount > Cardinality(LatestApprovers(reviews)))
              => (pc = "done" /\ decision = "insufficient-approvals")

\* C7: with a required count N > 0 and fewer than N distinct approving users
\* (none included), the evaluation ends in Skip(insufficient-approvals) having
\* fetched no CI signal and issued no merge call.
C7_InsufficientApprovalsSkip ==
    (/\ ReviewsFetched
     /\ protection.requiredCount > 0
     /\ Cardinality(DistinctApprovingUsers(reviews)) < protection.requiredCount)
    => /\ pc = "done"
       /\ decision = "insufficient-approvals"
       /\ ~Made("GetCombinedStatus")
       /\ ~Made("ListCheckRunsForRef")
       /\ ~MergeIssued

C7_Witness ==
    /\ ReviewsFetched /\ reviews = <<>>
    /\ protection.requiredCount = 1
    /\ decision = "insufficient-approvals"

\* The context names the combined status lists, and the names of the check runs.
StatusNames == {statuses[i].context : i \in 1..Len(statuses)}

RunNames == {checkRuns[i].name : i \in 1..Len(checkRuns)}

\* What a check run stands for: its conclusion once completed, else pending.
DerivedState(run) == IF run.status = "completed" THEN run.conclusion ELSE "pending"

\* The position of the last check run named c.
LastRunNamed(c) ==
    CHOOSE i \in 1..Len(checkRuns) :
        /\ checkRuns[i].name = c
        /\ \A j \in (i + 1)..Len(checkRuns) : checkRuns[j].name # c

\* The evaluation ended in a skip over a required check.
SkippedOnCheck ==
    /\ pc = "done"
    /\ decision \in {"missing-required-check", "failing-required-check"}

\* C8: a context named by both sources has the state of its check run (of the
\* last one of that name), whatever the combined status says and wherever the
\* entries stand in their lists; a required context with status success and a
\* completed check run of conclusion failure is failure and blocks the merge.
C8_CheckRunWins ==
    SignalsFetched =>
        \A c \in StatusNames \cap RunNames :
            /\ c \in DOMAIN currentStates
            /\ currentStates[c] = DerivedState(checkRuns[LastRunNamed(c)])
            /\ (/\ \A i \in 1..Len(checkRuns) :
                      checkRuns[i].name = c =>
                          checkRuns[i] = [name |-> c, status |-> "completed",
                                          conclusion |-> "failure"]
                /\ c \in RequiredContexts)
               => (currentStates[c] = "failure" /\ SkippedOnCheck)

C8_Witness ==
    /\ SignalsFetched
    /\ statuses = <<[context |-> "ci/test", state |-> "success"]>>
    /\ checkRuns = <<[name |-> "ci/test", status |-> "completed", conclusion |-> "failure"]>>
    /\ protection.contexts = <<"ci/test">>
    /\ currentStates["ci/test"] = "failure"
    /\ decision = "failing-required-check"

\* C9 as stated: a required context that has a check run which is not
\* completed is blocked, whatever else is reported for that name.
C9_UncompletedRunIsPending_Original ==
    SignalsFetched =>
        \A i \in 1..Len(checkRuns) :
            (checkRuns[i].status # "completed" /\ checkRuns[i].name \in RequiredContexts)
                => SkippedOnCheck

\* C9 amended: a check run that is not completed and is the last run of its
\* name in the list makes that name pending in the map, whatever the combined
\* status says, and blocks the merge when the name is required.
C9_UncompletedRunIsPending ==
    SignalsFetched =>
        \A i \in 1..Len(checkRuns) :
            (/\ checkRuns[i].status # "completed"
             /\ \A j \in (i + 1)..Len(checkRuns) : checkRuns[j].name # checkRuns[i].name)
            => /\ currentStates[checkRuns[i].name] = "pending"
               /\ checkRuns[i].name \in RequiredContexts => SkippedOnCheck

C9_Witness ==
    /\ SignalsFetched
    /\ statuses = <<[context |-> "ci/test", state |-> "success"]>>
    /\ checkRuns = <<[name |-> "ci/test", status |-> "in_progress", conclusion |-> ""]>>
    /\ protection.contexts = <<"ci/test">>
    /\ currentStates["ci/test"] = "pending"
    /\ decision = "failing-required-check"

\* The required contexts that neither source reports.
MissingContexts == RequiredContexts \ (StatusNames \cup RunNames)

\* The position of the first required context that neither source reports.
FirstMissing ==
    CHOOSE i \in 1..Len(protection.contexts) :
        /\ protection.contexts[i] \in MissingContexts
        /\ \A j \in 1..(i - 1) : protection.contexts[j] \notin MissingContexts

\* C10 as stated: a required context that neither source reports ends the
\* evaluation in Skip(missing-required-check) with no merge call.
C10_MissingRequiredCheck_Original ==
    (SignalsFetched /\ MissingContexts # {}) =>
        /\ pc = "done"
        /\ decision = "missing-required-check"
        /\ ~MergeIssued

\* C10 amended: a required context that neither source reports ends the
\* evaluation in a skip with no merge call; the reason is
\* missing-required-check when every required context listed before it is
\* success, and failing-required-check otherwise.
C10_MissingRequiredCheck ==
    (SignalsFetched /\ MissingContexts # {}) =>
        /\ pc = "done"
        /\ ~MergeIssued
        /\ decision =
             (IF \A j \in 1..(FirstMissing - 1) :
                     currentStates[protection.contexts[j]] = "success"
              THEN "missing-required-check"
              ELSE "failing-required-check")

C10_Witness ==
    /\ SignalsFetched
    /\ protection.contexts = <<"ci/test", "ci/lint">>
    /\ statuses = <<[context |-> "ci/test", state |-> "success"]>>
    /\ checkRuns = <<>>
    /\ decision = "missing-required-check"

\* The positions of the calls of one kind that were answered one way.
Answered(c, a) == {i \in 1..Len(calls) : calls[i] = c /\ answers[i] = a}

\* A required context counts against the merge: it is missing from the map or
\* its state is not "success".
Offending(c) == c \notin DOMAIN currentStates \/ currentStates[c] # "success"

\* The position of the first required context that counts against the merge.
FirstOffending ==
    CHOOSE i \in 1..Len(protection.contexts) :
        /\ Offending(protection.contexts[i])
        /\ \A j \in 1..(i - 1) : ~Offending(protection.contexts[j])

\* The required contexts that are in the map with a state other than "success".
NonSuccessContexts ==
    {c \in RequiredContexts : c \in DOMAIN currentStates /\ currentStates[c] # "success"}

\* C11 as stated: a required context that is in the map with a state other
\* than "success" ends the evaluation in Skip(failing-required-check) with no
\* merge call.
C11_NonSuccessBlocks_Original ==
    (SignalsFetched /\ NonSuccessContexts # {}) =>
        /\ pc = "done"
        /\ decision = "failing-required-check"
        /\ ~MergeIssued

\* C11 amended: a required context that is in the map with a state other than
\* "success" ends the evaluation in a skip with no merge call; the reason is
\* failing-required-check unless a required context listed before every such
\* context is missing, and then it is missing-required-check.
C11_NonSuccessBlocks ==
    (SignalsFetched /\ NonSuccessContexts # {}) =>
        /\ pc = "done"
        /\ ~MergeIssued
        /\ decision =
             (IF protection.contexts[FirstOffending] \in DOMAIN currentStates
              THEN "failing-required-check"
              ELSE "missing-required-check")

C11_Witness ==
    /\ SignalsFetched
    /\ protection.contexts = <<"ci/lint">>
    /\ statuses = <<>>
    /\ checkRuns = <<[name |-> "ci/lint", status |-> "in_progress", conclusion |-> ""]>>
    /\ currentStates["ci/lint"] = "pending"
    /\ decision = "failing-required-check"

\* C12: after a 404 of GetBranchProtection the evaluation goes straight to the
\* merge call: no review, status or check-run fetch is made, and it ends only
\* with the merge call issued.
C12_NoPolicyProceeds ==
    Answered("GetBranchProtection", "not-found") # {} =>
        /\ ~protection.present
        /\ pc \in {"merge", "done"}
        /\ ~Made("ListReviews")
        /\ ~Made("GetCombinedStatus")
        /\ ~Made("ListCheckRunsForRef")
        /\ pc = "done" => (MergeIssued /\ decision \in {"proceed", "merge-failed"})

C12_Witness ==
    /\ calls = <<"GetBranchProtection", "Merge">>
    /\ answers = <<"not-found", "ok">>
    /\ pr = [draft |-> FALSE, state |-> "open"]
    /\ decision = "proceed"

\* How often the merge call was issued.
MergeCount == Cardinality({i \in 1..Len(calls) : calls[i] = "Merge"})

\* C13: the merge call is issued at most once per evaluation and exactly once
\* by an evaluation that reached Proceed; a failed merge call ends the
\* evaluation without another attempt.
C13_MergeIssuedOnce ==
    /\ MergeCount <= 1
    /\ pc = "merge" => MergeCount = 0
    /\ decision \in {"proceed", "merge-failed"} =>
          (MergeCount = 1 /\ pc = "done" /\ LastCall = "Merge")
    /\ Answered("Merge", "error") # {} => (pc = "done" /\ decision = "merge-failed")

C13_Witness ==
    /\ calls = <<"GetBranchProtection", "ListReviews", "GetCombinedStatus",
                 "ListCheckRunsForRef", "Merge">>
    /\ protection.requiredCount = 1 /\ approvedCount = 1
    /\ protection.contexts = <<"ci/test">>
    /\ currentStates = [c \in {"ci/test"} |-> "success"]
    /\ MergeCount = 1
    /\ decision = "proceed"

\* C16: an error of GetBranchProtection other than 404 ends the evaluation in
\* Skip(policy-fetch-failed); no call follows it.
C16_PolicyFetchFailed ==
    Answered("GetBranchProtection", "error") # {} =>
        /\ pc = "done"
        /\ decision = "policy-fetch-failed"
        /\ LastCall = "GetBranchProtection"
        /\ ~Made("ListReviews")
        /\ ~Made("GetCombinedStatus")
        /\ ~Made("ListCheckRunsForRef")
        /\ ~MergeIssued

C16_Witness ==
    /\ LastCall = "GetBranchProtection"
    /\ answers[Len(answers)] = "error"
    /\ decision = "policy-fetch-failed"

\* The fetches of the approval block and of the CI block.
SignalFetches == {"ListReviews", "GetCombinedStatus", "ListCheckRunsForRef"}

\* The calls that only read.
ReadCalls == SignalFetches \cup {"GetBranchProtection", "Get", "ListPullRequestsWithCommit"}

\* C17: an error of ListReviews, GetCombinedStatus or ListCheckRunsForRef is
\* the last thing the evaluation does: it has ended, normally, with no later
\* call and no merge call, so with nothing written to the remote PR.
C17_FetchErrorAborts ==
    \A i \in 1..Len(calls) :
        (calls[i] \in SignalFetches /\ answers[i] = "error") =>
            /\ i = Len(calls)
            /\ pc = "done"
            /\ decision = "fetch-failed"
            /\ \A j \in 1..Len(calls) : calls[j] \in ReadCalls

C17_Witness ==
    /\ LastCall = "GetCombinedStatus"
    /\ answers[Len(answers)] = "error"
    /\ decision = "fetch-failed"
    /\ protection.requiredCount = 1

\* C18 as stated: every pull_request_review event, whatever the state of the
\* review, has its embedded PR evaluated.
C18_EveryReviewEventEvaluates ==
    handled.type = "pull_request_review" =>
        (Evaluated /\ pr = handled.pr /\ prSource = "payload")

\* C19: a pull_request event has its embedded PR evaluated if and only if its
\* action is opened, reopened, synchronize or ready_for_review; with any other
\* action the handler returns with no call made.
C19_PullRequestActions ==
    handled.type = "pull_request" =>
        /\ Evaluated <=> handled.action \in {"opened", "reopened", "synchronize",
                                             "ready_for_review"}
        /\ Evaluated => (pr = handled.pr /\ prSource = "payload")
        /\ ~Evaluated => (pc = "done" /\ decision = "ignored" /\ calls = <<>>)

C19_Witness ==
    /\ handled.type = "pull_request"
    /\ handled.action = "ready_for_review"
    /\ pr = [draft |-> FALSE, state |-> "open"]
    /\ pc = "get_protection"

C21_CheckCompletedTriggers ==
    handled.type \in {"check_run", "check_suite"} =>
        /\ handled.state # "completed" =>
              (pc = "done" /\ decision = "ignored" /\ calls = <<>> /\ ~Evaluated)
        /\ handled.state = "completed" =>
              /\ decision # "ignored"
              /\ calls = <<>> =>
                    (pc \in {"list_prs_check", "get_pr"} \/ decision = "client-failed")

C21_Witness ==
    /\ handled.type = "check_suite"
    /\ handled.state = "completed"
    /\ handled.conclusion = "failure"
    /\ Evaluated
    /\ pc = "get_protection"

\* C23: a lookup of the pull requests of a commit that fails is the last thing
\* the handler does: it returns with no pull request evaluated and no merge
\* call issued.
C23_LookupFailureResolvesNothing ==
    \A i \in 1..Len(calls) :
        (calls[i] = "ListPullRequestsWithCommit" /\ answers[i] = "error") =>
            /\ i = Len(calls)
            /\ pc = "done"
            /\ decision = "lookup-failed"
            /\ ~Evaluated
            /\ ~MergeIssued

C23_Witness ==
    /\ handled.type = "check_run"
    /\ handled.prs = <<>>
    /\ calls = <<"ListPullRequestsWithCommit">>
    /\ answers = <<"error">>
    /\ decision = "lookup-failed"

\* GetBranchProtection answered, with a policy or with a 404.
ProtectionFetched ==
    Answered("GetBranchProtection", "ok") \cup Answered("GetBranchProtection", "not-found") # {}

\* C28: ListReviews is called only for a policy with a review requirement
\* whose count is greater than 0; without one the evaluation never ends for
\* lack of approvals.
C28_ApprovalCheckOnlyIfRequired ==
    /\ Made("ListReviews") =>
          (protection.present /\ protection.reviews /\ protection.requiredCount > 0)
    /\ (ProtectionFetched /\ (~protection.reviews \/ protection.requiredCount = 0)) =>
          (~Made("ListReviews") /\ decision # "insufficient-approvals")

C28_Witness ==
    /\ protection.present
    /\ protection.reviews
    /\ protection.requiredCount = 0
    /\ calls = <<"GetBranchProtection", "Merge">>
    /\ decision = "proceed"

\* C29 as stated: for a policy that names no required context, the combined
\* status and the check runs are not fetched, so that no failure of those
\* fetches ends the evaluation.
C29_NoContextsNoSignalFetch ==
    (ProtectionFetched /\ RequiredContexts = {}) =>
        /\ ~Made("GetCombinedStatus")
        /\ ~Made("ListCheckRunsForRef")

\* The position of the last status of context c.
LastStatusNamed(c) ==
    CHOOSE i \in 1..Len(statuses) :
        /\ statuses[i].context = c
        /\ \A j \in (i + 1)..Len(statuses) : statuses[j].context # c

\* C30: the map has one entry for every name either source reports and for no
\* other; a name with a check run has the state of the last check run of that
\* name, any other name the state of the last status of that name.
C30_OneStatePerContext ==
    SignalsFetched =>
        /\ DOMAIN currentStates = StatusNames \cup RunNames
        /\ \A c \in DOMAIN currentStates :
              currentStates[c] =
                 (IF c \in RunNames THEN DerivedState(checkRuns[LastRunNamed(c)])
                  ELSE statuses[LastStatusNamed(c)].state)

C30_Witness ==
    /\ SignalsFetched
    /\ statuses = <<[context |-> "ci/test", state |-> "failure"],
                    [context |-> "ci/test", state |-> "success"]>>
    /\ checkRuns = <<[name |-> "ci/lint", status |-> "completed", conclusion |-> "failure"],
                     [name |-> "ci/lint", status |-> "completed", conclusion |-> "success"]>>
    /\ currentStates = [c \in {"ci/test", "ci/lint"} |-> "success"]

\* ---- two evaluations

BothDone == \A e \in Evaluations : evals[e].pc = "done"

\* An evaluation that ended because a call or the client creation failed.
Failed(e) ==
    evals[e].decision \in {"client-failed", "get-failed", "policy-fetch-failed",
                           "fetch-failed"}

\* The Decision of an evaluation: a merge call that failed was still Proceed.
DecisionOf(e) ==
    IF evals[e].decision = "merge-failed" THEN "proceed" ELSE evals[e].decision

\* No merge call went through, which is the one way an evaluation changes
\* what the API holds.
RemoteUnchanged == \A e \in Evaluations : evals[e].decision # "proceed"

C15_ConcurrentSameDecision ==
    (/\ BothDone
     /\ overlapped
     /\ evals["e1"].trigger = "pull_request_review"
     /\ evals["e2"].trigger = "check_run"
     /\ RemoteUnchanged
     /\ \A e \in Evaluations : ~Failed(e))
    => DecisionOf("e1") = DecisionOf("e2")

\* ---- one delivery

ElementsOf(l) == {l[i] : i \in 1..Len(l)}

\* The goroutine has taken up pull request n.
Started(n) == outcomes[n] # "none" \/ worker.cur = n

StartedPRs == {n \in PRNumbers : Started(n)}

\* The handler of a completed check_run or check_suite event ran.
CompletedCheckHandled ==
    /\ request.event.type \in {"check_run", "check_suite"}
    /\ request.event.state = "completed"
    /\ worker.pc \notin {"idle", "spawned"}

\* C22: for a completed check event whose payload lists pull requests, no
\* lookup is made and the pull requests taken up are those of the payload, all
\* of them once the goroutine returned; a lookup is made only for an empty
\* payload list, and then the pull requests taken up are those it returned.
C22_PayloadListOrLookup ==
    CompletedCheckHandled =>
        /\ request.event.prs # <<>> =>
              /\ lookup = NoLookup
              /\ worker.pc # "list_prs"
              /\ StartedPRs \subseteq ElementsOf(request.event.prs)
              /\ worker.pc = "done" => StartedPRs = ElementsOf(request.event.prs)
        /\ request.event.prs = <<>> =>
              /\ StartedPRs \subseteq ElementsOf(lookup.prs)
              /\ (worker.pc = "done" /\ lookup.answer = "ok")
                    => StartedPRs = ElementsOf(lookup.prs)

C22_Witness ==
    /\ request.event.type = "check_run"
    /\ Len(request.event.prs) = 2
    /\ lookup = NoLookup
    /\ worker.pc = "done"
    /\ StartedPRs = ElementsOf(request.event.prs)

\* C24: an event that is none of pull_request_review, check_run, check_suite,
\* status and pull_request starts no goroutine and no call, and the delivery
\* is answered 200 OK.
C24_UnrecognizedIgnored ==
    (/\ request.valid /\ request.parsed
     /\ request.event.type \notin {"pull_request_review", "check_run", "check_suite",
                                   "status", "pull_request"}
     /\ httpPc # "received")
    => /\ worker = NoWorker
       /\ lookup = NoLookup
       /\ StartedPRs = {}
       /\ httpPc = "responded" => response = "200 OK"
       /\ httpPc # "responded" => response = "none"

C24_Witness ==
    /\ request.event.type = "push"
    /\ worker = NoWorker
    /\ response = "200 OK"

\* C25: once the event is dispatched, writing 200 OK is possible whatever the
\* goroutine is doing, and 200 OK is what every valid delivery is answered.
C25_FireAndForget ==
    (request.valid /\ request.parsed) =>
        /\ httpPc = "dispatched" => ENABLED WriteHeaderOK
        /\ httpPc = "responded" => response = "200 OK"

C25_Witness ==
    /\ response = "200 OK"
    /\ worker.pc = "blocked"
    /\ worker.cur # 0

\* The pull requests the event resolved to.
ResolvedPRs ==
    IF lookup.answer = "ok" THEN ElementsOf(lookup.prs)
    ELSE IF CompletedCheckHandled THEN ElementsOf(request.event.prs)
    ELSE {}

\* C26 as stated: every pull request an event resolved to is taken up,
\* whatever happens to the evaluations of the others.
C26_IndependentEvaluations ==
    \A n \in PRNumbers : (n \in ResolvedPRs) ~> Started(n)

\* C27 as stated: every goroutine that was started returns.
C27_EvaluationsTerminate == (worker.pc = "spawned") ~> (worker.pc = "done")

\* ---------------------------------------------------------------- C31, C32: what two goroutines share
\* The evaluations that got as far as the merge call.
ReachedMerge ==
    {e \in Evaluations : evals[e].decision \in {"proceed", "merge-failed"}}

\* C31: every evaluation that reaches the merge call issues it, whatever the
\* other evaluation of the pull request is doing or has done: the API gets as
\* many merge calls as there are evaluations that got that far, and the
\* merge call of an evaluation that stands before it is never held back.
C31_NoDuplicateGuard ==
    /\ remote.merges = Cardinality(ReachedMerge)
    /\ \A e \in Evaluations : evals[e].pc = "merge" => ENABLED goMerge(e)

C31_Witness ==
    /\ overlapped
    /\ remote.merges = 2
    /\ evals["e1"].decision = "proceed"
    /\ evals["e2"].decision = "merge-failed"
    /\ evals["e1"].pr = evals["e2"].pr

\* The locals of evaluation e that processPR holds between two calls.
LocalsOf(e) == <<evals[e].protection, evals[e].statuses>>

\* A step that leaves the record of every evaluation but one as it was.
OneEvaluationSteps ==
    \E e \in Evaluations :
        \A o \in Evaluations \ {e} : evals'[o] = evals[o]

CallRank(c) ==
    CASE c = "GetBranchProtection" -> 1
      [] c = "ListReviews" -> 2
      [] c = "GetCombinedStatus" -> 3
      [] c = "ListCheckRunsForRef" -> 4
      [] c = "Merge" -> 5
      [] OTHER -> 0

\* The positions of the log that hold a call of processPR.
ProcessPRPositions == {i \in 1..Len(calls) : calls[i] \in ProcessPRCalls}

\* C34: the calls of one evaluation come in the order branch protection,
\* reviews, combined status, check runs, merge, each at most once; a call is
\* followed by another one only if it was answered without error; an
\* evaluation that ended for lack of approvals made no call after ListReviews;
\* and the merge call is issued only after every fetch the policy calls for
\* was answered without error.
C34_CallOrder ==
    /\ \A i, j \in ProcessPRPositions :
          i < j => /\ CallRank(calls[i]) < CallRank(calls[j])
                   /\ answers[i] \in {"ok", "not-found"}
    /\ decision # "none" => pc = "done"
    /\ decision = "insufficient-approvals" => LastCall = "ListReviews"
    /\ MergeIssued =>
          /\ ProtectionFetched
          /\ NeedsReviews(protection) => Answered("ListReviews", "ok") # {}
          /\ NeedsChecks(protection) =>
                /\ Answered("GetCombinedStatus", "ok") # {}
                /\ Answered("ListCheckRunsForRef", "ok") # {}

C34_Witness ==
    /\ calls = <<"GetBranchProtection", "ListReviews", "GetCombinedStatus",
                 "ListCheckRunsForRef", "Merge">>
    /\ answers = <<"ok", "ok", "ok", "ok", "ok">>
    /\ protection.requiredCount = 2
    /\ Len(protection.contexts) = 2

\* ---------------------------------------------------------------- C33, C35, C36: one delivery
\* The step with which the goroutine, having read the signals of the head
\* commit for a policy with required checks, issues the merge call for the
\* pull request it is working on, and the call goes through.
MergeGoesThrough ==
    /\ worker.pc = "merge"
    /\ NeedsChecks(worker.protection)
    /\ outcomes'[worker.cur] = "proceed"

\* C33 as stated: a merge call that goes through merges the pull request the
\* evaluation looked at: since processPR was handed it, it was not closed,
\* not made a draft and got no new head commit, so that the check successes
\* the evaluation read are those of the head that is merged.
C33_MergesWhatItChecked == [][MergeGoesThrough => sinceRead = "unchanged"]_vars

\* The pull requests of a completed check event whose Get failed.
GetFailed == {n \in PRNumbers : outcomes[n] = "get-failed"}

\* C35: a failed Get ends the evaluation of that pull request only. The
\* pull requests of the event are taken up in the order of the list, a pull
\* request after the failed one included, and the goroutine does not return
\* before all of them were taken up.
C35_GetFailureSkipsOnlyThatPR ==
    GetFailed # {} =>
        /\ \A n \in ResolvedPRs : \A m \in ResolvedPRs :
              (m < n /\ Started(n)) => outcomes[m] # "none"
        /\ worker.pc = "done" =>
              \A n \in ResolvedPRs : outcomes[n] # "none"

C35_Witness ==
    /\ request.event.type = "check_suite"
    /\ ResolvedPRs = {1, 2}
    /\ outcomes[1] = "get-failed"
    /\ outcomes[2] = "proceed"
    /\ worker.pc = "done"

\* The delivery failed ValidatePayload or ParseWebHook and HandleWebhook has
\* dealt with it.
Rejected == (~request.valid \/ ~request.parsed) /\ httpPc # "received"

\* C36: a delivery that fails validation or parsing is answered 400, and no
\* goroutine, lookup or evaluation comes of it; a goroutine exists only for
\* a delivery that passed both.
C36_InvalidDeliveryRejected ==
    /\ (request # NoRequest /\ Rejected) =>
          /\ httpPc = "responded"
          /\ response = "400 Bad Request"
          /\ worker = NoWorker
          /\ lookup = NoLookup
          /\ StartedPRs = {}
          /\ ~ENABLED Background
    /\ worker # NoWorker => (request.valid /\ request.parsed)

C36_Witness ==
    /\ ~request.valid
    /\ request.parsed
    /\ request.event.type = "check_run"
    /\ request.event.state = "completed"
    /\ response = "400 Bad Request"
    /\ worker = NoWorker

====
